---- MODULE Spec2Model ----
(***************************************************************************)
(* Model of `count` (src/src/main.rs): a line counter that classifies      *)
(* files by extension, counts lines per file and aggregates the counts per *)
(* language.                                                               *)
(*                                                                         *)
(* Three specifications share the definitions below:                      *)
(*   SpecCount  the line counter as a pure function of a file's content;   *)
(*   Spec       a StatisticsManager driven by arbitrary process_file and   *)
(*              print_statistics calls;                                    *)
(*   SpecMain   one run of main over a small file system.                  *)
(*                                                                         *)
(* Option<T> values are sets with at most one element ({} is None).        *)
(* The u64 counters are unbounded naturals: no run within the bounds comes *)
(* near 2^64.                                                              *)
(***************************************************************************)
EXTENDS Naturals, Sequences, FiniteSets, Bags, TLC

\* ------------------------------------------------------------------ bounds
\* longest content handed to the counter in SpecCount
MaxLen == 5
\* longest file content read in Spec
MaxFileLen == 2
\* number of process_file calls in a behaviour of Spec
MaxCalls == 3
\* number of command-line arguments in SpecMain
MaxArgs == 2

\* --------------------------------------------------------------- characters
LF == "LF"
CR == "CR"
SP == "SP"
XC == "x"
Alphabet == {LF, CR, SP, XC}

RECURSIVE SeqsUpTo(_, _)
SeqsUpTo(S, n) ==
  IF n = 0 THEN {<<>>}
  ELSE LET shorter == SeqsUpTo(S, n - 1)
       IN  shorter \cup {Append(s, c) : s \in {t \in shorter : Len(t) = n - 1}, c \in S}

\* ----------------------------------------------------------------- FileStats
FileStatsDefault == [lines |-> 0, code |-> 0, comments |-> 0, blanks |-> 0]

FileStatsAddOverwrites(self, stats) ==
  [blanks   |-> self.blanks + stats.blanks,
   comments |-> self.comments + stats.comments,
   lines    |-> self.lines + stats.lines,
   code     |-> stats.code]

\* FileStats::add
FileStatsAdd(self, stats) ==
  [blanks   |-> self.blanks + stats.blanks,
   comments |-> self.comments + stats.comments,
   lines    |-> self.lines + stats.lines,
   code     |-> self.code + stats.code]

LanguageStatsDefault == [stats |-> FileStatsDefault, file_count |-> 0]

LanguageStatsAddNoCount(self, stats) ==
  [stats |-> FileStatsAdd(self.stats, stats), file_count |-> self.file_count]

\* LanguageStats::add
LanguageStatsAdd(self, stats) ==
  [stats |-> FileStatsAdd(self.stats, stats), file_count |-> self.file_count + 1]

\* ------------------------------------------------------------- str::lines()
\* content.lines() is split_inclusive('\n') followed by stripping one "\n" and
\* then one "\r" from the end of each piece; a piece without "\n" (the last
\* one) is returned as it is.
RECURSIVE SplitInclusive(_, _)
SplitInclusive(s, cur) ==
  IF s = <<>> THEN (IF cur = <<>> THEN <<>> ELSE <<cur>>)
  ELSE IF Head(s) = LF THEN <<Append(cur, LF)>> \o SplitInclusive(Tail(s), <<>>)
  ELSE SplitInclusive(Tail(s), Append(cur, Head(s)))

StripSuffix(line, c) ==
  IF Len(line) > 0 /\ line[Len(line)] = c
  THEN {SubSeq(line, 1, Len(line) - 1)}
  ELSE {}

LineOfKeepsCR(piece) ==
  LET noLF == StripSuffix(piece, LF)
  IN  IF noLF = {} THEN piece ELSE CHOOSE l \in noLF : TRUE

LineOf(piece) ==
  LET noLF == StripSuffix(piece, LF)
  IN  IF noLF = {} THEN piece
      ELSE LET l    == CHOOSE x \in noLF : TRUE
               noCR == StripSuffix(l, CR)
           IN  IF noCR = {} THEN l ELSE CHOOSE x \in noCR : TRUE

Lines(content) ==
  LET pieces == SplitInclusive(content, <<>>)
  IN  [i \in 1..Len(pieces) |-> LineOf(pieces[i])]

\* ---------------------------------------------------- process_markdown_file
\* the body of the for loop, for one line
CountLineForgetsTotal(stats, line) ==
  IF line = <<>>
  THEN [stats EXCEPT !.blanks = @ + 1]
  ELSE [stats EXCEPT !.code = @ + 1, !.lines = @ + 1]

CountLine(stats, line) ==
  IF line = <<>>
  THEN [stats EXCEPT !.blanks = @ + 1, !.lines = @ + 1]
  ELSE [stats EXCEPT !.code = @ + 1, !.lines = @ + 1]

RECURSIVE CountLines(_, _)
CountLines(stats, lines) ==
  IF lines = <<>> THEN stats
  ELSE CountLines(CountLine(stats, Head(lines)), Tail(lines))

\* the counter on content already read
CountContent(content) == CountLines(FileStatsDefault, Lines(content))

\* A read outcome is what read_file_content returns: Ok(content) or an error.
ReadOk(content) == [ok |-> TRUE, content |-> content]
ReadErr == [ok |-> FALSE, content |-> <<>>]

\* process_markdown_file: Result<FileStats>, the error of the read propagated by `?`
process_markdown_file(data) ==
  IF data.ok
  THEN [ok |-> TRUE, stats |-> CountContent(data.content)]
  ELSE [ok |-> FALSE, stats |-> FileStatsDefault]

\* ------------------------------------------------------------------- paths
\* A file name is the sequence of its parts between dots: "a.tar.md" is
\* <<"a", "tar", "md">>, the dotfile ".md" is <<"", "md">>, "README" is <<"README">>.
FileNames ==
  { <<"a", "md">>, <<"a", "tar", "md">>, <<"", "md">>, <<"README">>,
    <<"a", "txt">>, <<"a", "MD">> }

ExtensionOfKeepsDotfile(name) ==
  IF Len(name) = 1 THEN {} ELSE {name[Len(name)]}

\* filepath.extension().and_then(|e| e.to_str()): nothing without a dot, nothing
\* when the only dot is the first character, else what follows the last dot
ExtensionOf(name) ==
  IF Len(name) = 1 THEN {}
  ELSE IF Len(name) = 2 /\ name[1] = "" THEN {}
  ELSE {name[Len(name)]}

\* HashMap::get
Get(map, key) == IF key \in DOMAIN map THEN {map[key]} ELSE {}

\* HashMap::insert
Insert(map, key, value) ==
  [k \in DOMAIN map \cup {key} |-> IF k = key THEN value ELSE map[k]]

EmptyMap == [k \in {} |-> 0]

\* --------------------------------------------------------- StatisticsManager
VARIABLES
  language_stats,   \* language name -> LanguageStats
  extension_map,    \* extension -> language name
  processors,       \* extension -> name of the counting function
  lastCall,         \* the last process_file call: its path, what was read, its result
  counted,          \* bag of the contents of the registered files read so far
  calls,            \* number of process_file calls so far
  output,           \* the last report printed by print_statistics
  content,          \* SpecCount: the text handed to the counter
  file_stats,       \* SpecCount: the FileStats the counter returned
  pc,               \* SpecMain: position of main
  args,             \* SpecMain: the command-line arguments
  files,            \* SpecMain: the flat file list
  argIdx,           \* SpecMain: next argument to expand
  fileIdx,          \* SpecMain: next file to process
  exit_code         \* SpecMain: the exit code once the process ended

managerVars == <<language_stats, extension_map, processors>>
callVars    == <<lastCall, counted, calls>>
countVars   == <<content, file_stats>>
mainVars    == <<pc, args, files, argIdx, fileIdx, exit_code>>
vars == <<language_stats, extension_map, processors, lastCall, counted, calls,
          output, content, file_stats, pc, args, files, argIdx, fileIdx, exit_code>>

NewWithoutLanguage ==
  [language_stats |-> EmptyMap,
   extension_map  |-> EmptyMap,
   processors     |-> Insert(EmptyMap, "md", "process_markdown_file")]

\* StatisticsManager::new
New ==
  [language_stats |-> EmptyMap,
   extension_map  |-> Insert(EmptyMap, "md", "Markdown"),
   processors     |-> Insert(EmptyMap, "md", "process_markdown_file")]

\* a call through the function pointer stored in processors
Apply(processor, data) ==
  CASE processor = "process_markdown_file" -> process_markdown_file(data)

\* language_stats.entry(lang).or_default()
EntryOrDefault(table, lang) ==
  IF lang \in DOMAIN table THEN table[lang] ELSE LanguageStatsDefault

Skipped(table) ==
  [result |-> "Ok", table |-> table, read |-> {}, stats |-> {}, dropped |-> FALSE]

ProcessFileOutcomeEntryFirst(table, emap, procs, name, data) ==
  LET extOpt == ExtensionOf(name)
  IN  IF extOpt = {} THEN Skipped(table)
      ELSE
        LET ext     == CHOOSE e \in extOpt : TRUE
            procOpt == Get(procs, ext)
            langOpt == Get(emap, ext)
        IN  IF procOpt = {} \/ langOpt = {} THEN Skipped(table)
            ELSE
              LET lang  == CHOOSE l \in langOpt : TRUE
                  entry == EntryOrDefault(table, lang)
                  r     == Apply(CHOOSE p \in procOpt : TRUE, data)
              IN  IF ~r.ok
                  THEN [result |-> "Err", table |-> Insert(table, lang, entry),
                        read |-> {data}, stats |-> {}, dropped |-> FALSE]
                  ELSE [result |-> "Ok",
                        table |-> Insert(table, lang, LanguageStatsAdd(entry, r.stats)),
                        read |-> {data}, stats |-> {r.stats}, dropped |-> FALSE]

ProcessFileOutcomeSwallows(table, emap, procs, name, data) ==
  LET extOpt == ExtensionOf(name)
  IN  IF extOpt = {} THEN Skipped(table)
      ELSE
        LET ext     == CHOOSE e \in extOpt : TRUE
            procOpt == Get(procs, ext)
        IN  IF procOpt = {} THEN Skipped(table)
            ELSE
              LET r       == Apply(CHOOSE p \in procOpt : TRUE, data)
                  langOpt == Get(emap, ext)
              IN  IF ~r.ok
                  THEN [result |-> "Ok", table |-> table, read |-> {data},
                        stats |-> {}, dropped |-> FALSE]
                  ELSE IF langOpt = {}
                  THEN [result |-> "Ok", table |-> table, read |-> {data},
                        stats |-> {r.stats}, dropped |-> TRUE]
                  ELSE
                    LET lang == CHOOSE l \in langOpt : TRUE
                    IN  [result |-> "Ok",
                         table |-> Insert(table, lang,
                                     LanguageStatsAdd(EntryOrDefault(table, lang), r.stats)),
                         read |-> {data}, stats |-> {r.stats}, dropped |-> FALSE]

\* StatisticsManager::process_file, as a function of the table, the two
\* registries, the path's file name and what reading the file yields.
\*   result   Ok or Err, what the caller gets
\*   table    language_stats after the call
\*   read     the read outcome, when a processor was invoked
\*   stats    the FileStats the processor returned, when it returned one
\*   dropped  the processor returned stats and no language took them
ProcessFileOutcome(table, emap, procs, name, data) ==
  LET extOpt == ExtensionOf(name)
  IN  IF extOpt = {} THEN Skipped(table)
      ELSE
        LET ext     == CHOOSE e \in extOpt : TRUE
            procOpt == Get(procs, ext)
        IN  IF procOpt = {} THEN Skipped(table)
            ELSE
              LET r       == Apply(CHOOSE p \in procOpt : TRUE, data)
                  langOpt == Get(emap, ext)
              IN  IF ~r.ok
                  THEN [result |-> "Err", table |-> table, read |-> {data},
                        stats |-> {}, dropped |-> FALSE]
                  ELSE IF langOpt = {}
                  THEN [result |-> "Ok", table |-> table, read |-> {data},
                        stats |-> {r.stats}, dropped |-> TRUE]
                  ELSE
                    LET lang == CHOOSE l \in langOpt : TRUE
                    IN  [result |-> "Ok",
                         table |-> Insert(table, lang,
                                     LanguageStatsAdd(EntryOrDefault(table, lang), r.stats)),
                         read |-> {data}, stats |-> {r.stats}, dropped |-> FALSE]

\* The extension and the language new() registers. IsRegistered reads them off
\* a file name directly, so that the history variable `counted` is kept from
\* the inputs alone and not from the path process_file took.
RegisteredExtensions == {"md"}
Markdown == "Markdown"
IsRegistered(name) ==
  /\ Len(name) >= 2
  /\ ~(Len(name) = 2 /\ name[1] = "")
  /\ name[Len(name)] \in RegisteredExtensions

\* one process_file call on a path named `name` whose file reads as `data`
ProcessFileCall(name, data) ==
  LET out == ProcessFileOutcome(language_stats, extension_map, processors, name, data)
  IN  /\ language_stats' = out.table
      /\ lastCall' = {[name |-> name, data |-> data, read |-> out.read,
                       result |-> out.result, stats |-> out.stats,
                       dropped |-> out.dropped]}
      /\ counted' = IF IsRegistered(name) /\ data.ok
                    THEN counted (+) SetToBag({data.content})
                    ELSE counted
      /\ calls' = calls + 1
      /\ UNCHANGED <<extension_map, processors>>

SumFileCountsCountsLanguages(table, langs) == Cardinality(langs)

RECURSIVE SumFileCounts(_, _)
SumFileCounts(table, langs) ==
  IF langs = {} THEN 0
  ELSE LET l == CHOOSE x \in langs : TRUE
       IN  table[l].file_count + SumFileCounts(table, langs \ {l})

\* StatisticsManager::total_files
total_files(table) == SumFileCounts(table, DOMAIN table)

\* one line of the report per language, in the order the HashMap iterates
Row(table, lang) ==
  [language |-> lang,
   files    |-> table[lang].file_count,
   code     |-> table[lang].stats.code,
   comments |-> table[lang].stats.comments,
   blanks   |-> table[lang].stats.blanks,
   lines    |-> table[lang].stats.lines]

Orders(S) ==
  {s \in [1..Cardinality(S) -> S] : \A i, j \in 1..Cardinality(S) : s[i] = s[j] => i = j}

\* StatisticsManager::print_statistics
PrintStatistics ==
  /\ \E order \in Orders(DOMAIN language_stats) :
       output' = {[rows  |-> [i \in 1..Len(order) |-> Row(language_stats, order[i])],
                   total |-> total_files(language_stats)]}
  /\ UNCHANGED <<managerVars, callVars>>

\* ------------------------------------------------ Spec: calls on a manager
\* The files of Spec hold line feeds and one other character: what "\r" and
\* spaces do to a count is SpecCount's matter, the aggregation sees the counts.
FileAlphabet == {LF, XC}
Contents == SeqsUpTo(FileAlphabet, MaxFileLen)
ReadOutcomes == {ReadOk(c) : c \in Contents} \cup {ReadErr}

\* What reading a path may yield. A path with a registered extension reads as
\* any content or fails; for the others one readable and one unreadable file
\* stand for all.
OutcomesFor(name) ==
  IF IsRegistered(name) THEN ReadOutcomes ELSE {ReadOk(<<XC, LF>>), ReadErr}

IdleCount == content = <<>> /\ file_stats = {}
IdleMain ==
  /\ pc = "library" /\ args = <<>> /\ files = <<>>
  /\ argIdx = 1 /\ fileIdx = 1 /\ exit_code = {}

Init ==
  /\ language_stats = New.language_stats
  /\ extension_map = New.extension_map
  /\ processors = New.processors
  /\ lastCall = {}
  /\ counted = EmptyBag
  /\ calls = 0
  /\ output = {}
  /\ IdleCount
  /\ IdleMain

\* process_file on any path, the file reading as anything
ProcessFile ==
  /\ calls < MaxCalls
  /\ \E name \in FileNames : \E data \in OutcomesFor(name) : ProcessFileCall(name, data)
  /\ UNCHANGED <<output, countVars, mainVars>>

Report ==
  /\ PrintStatistics
  /\ UNCHANGED <<countVars, mainVars>>

Next == ProcessFile \/ Report

Spec == Init /\ [][Next]_vars

\* ------------------------------------------- SpecCount: the counter alone
InitCount ==
  /\ content \in SeqsUpTo(Alphabet, MaxLen)
  /\ file_stats = {}
  /\ language_stats = New.language_stats
  /\ extension_map = New.extension_map
  /\ processors = New.processors
  /\ lastCall = {}
  /\ counted = EmptyBag
  /\ calls = 0
  /\ output = {}
  /\ IdleMain

\* process_markdown_file once the content is read
Count ==
  /\ file_stats = {}
  /\ file_stats' = {process_markdown_file(ReadOk(content)).stats}
  /\ UNCHANGED <<content, managerVars, callVars, output, mainVars>>

NextCount == Count

SpecCount == InitCount /\ [][NextCount]_vars

\* ------------------------------------------------- SpecMain: a run of main
\* A node of the file system: a file with its name and what reading it yields,
\* or a directory with its entries in the order read_dir yields them
\* (listable FALSE: read_dir fails on it).
File(name, data) ==
  [kind |-> "file", name |-> name, data |-> data, listable |-> FALSE, entries |-> <<>>]
Dir(name, entries) ==
  [kind |-> "dir", name |-> name, data |-> ReadErr, listable |-> TRUE, entries |-> entries]
LockedDir(name) ==
  [kind |-> "dir", name |-> name, data |-> ReadErr, listable |-> FALSE, entries |-> <<>>]

FileA      == File(<<"a", "md">>, ReadOk(<<XC, LF>>))
FileB      == File(<<"b", "md">>, ReadOk(<<LF, LF>>))
FileBroken == File(<<"broken", "md">>, ReadErr)
FileNotes  == File(<<"notes", "txt">>, ReadErr)
FileReadme == File(<<"README">>, ReadOk(<<XC>>))
DirLocked  == LockedDir(<<"locked">>)
DirSub     == Dir(<<"sub">>, <<FileB, FileNotes>>)
DirDocs    == Dir(<<"docs">>, <<FileReadme, DirSub, FileA>>)
DirPartly  == Dir(<<"partly">>, <<FileA, DirLocked>>)
DirMixed   == Dir(<<"mixed">>, <<FileB, FileBroken, FileA>>)

Arguments == {FileA, FileBroken, FileNotes, DirDocs, DirLocked, DirPartly, DirMixed}

WalkErr == [ok |-> FALSE, files |-> <<>>]

RECURSIVE read_dir_recursively(_)
RECURSIVE WalkEntries(_, _)

WalkEntriesSkipsLocked(entries, found) ==
  IF entries = <<>> THEN [ok |-> TRUE, files |-> found]
  ELSE
    LET entry == Head(entries)
    IN  IF entry.kind = "dir"
        THEN LET sub == read_dir_recursively(entry)
             IN  WalkEntries(Tail(entries), found \o sub.files)
        ELSE WalkEntries(Tail(entries), Append(found, entry))

\* the for loop of read_dir_recursively over the entries not yet visited
WalkEntries(entries, found) ==
  IF entries = <<>> THEN [ok |-> TRUE, files |-> found]
  ELSE
    LET entry == Head(entries)
    IN  IF entry.kind = "dir"
        THEN LET sub == read_dir_recursively(entry)
             IN  IF ~sub.ok THEN WalkErr
                 ELSE WalkEntries(Tail(entries), found \o sub.files)
        ELSE WalkEntries(Tail(entries), Append(found, entry))

read_dir_recursively(dir) ==
  IF ~dir.listable THEN WalkErr ELSE WalkEntries(dir.entries, <<>>)

InitMain ==
  /\ args \in SeqsUpTo(Arguments, MaxArgs)
  /\ pc = "start"
  /\ files = <<>>
  /\ argIdx = 1
  /\ fileIdx = 1
  /\ exit_code = {}
  /\ language_stats = New.language_stats
  /\ extension_map = New.extension_map
  /\ processors = New.processors
  /\ lastCall = {}
  /\ counted = EmptyBag
  /\ calls = 0
  /\ output = {}
  /\ IdleCount

\* lines 182-190: no argument is exit(1); else the manager is constructed
CheckArgs ==
  /\ pc = "start"
  /\ IF args = <<>>
     THEN pc' = "exited" /\ exit_code' = {1}
     ELSE pc' = "expand" /\ UNCHANGED exit_code
  /\ UNCHANGED <<args, files, argIdx, fileIdx, managerVars, callVars, output, countVars>>

\* one iteration of `for filepath in args`
ExpandArg ==
  /\ pc = "expand"
  /\ argIdx <= Len(args)
  /\ LET arg  == args[argIdx]
         walk == IF arg.kind = "dir" THEN read_dir_recursively(arg)
                 ELSE [ok |-> TRUE, files |-> <<arg>>]
     IN  IF ~walk.ok
         THEN /\ pc' = "exited"
              /\ exit_code' = {1}
              /\ UNCHANGED <<files, argIdx>>
         ELSE /\ files' = files \o walk.files
              /\ argIdx' = argIdx + 1
              /\ pc' = IF argIdx = Len(args) THEN "process" ELSE "expand"
              /\ UNCHANGED exit_code
  /\ UNCHANGED <<args, fileIdx, managerVars, callVars, output, countVars>>

\* one iteration of `for file in &files`; an Err leaves main through `?`
ProcessNext ==
  /\ pc = "process"
  /\ fileIdx <= Len(files)
  /\ ProcessFileCall(files[fileIdx].name, files[fileIdx].data)
  /\ LET out == ProcessFileOutcome(language_stats, extension_map, processors,
                                   files[fileIdx].name, files[fileIdx].data)
     IN  IF out.result = "Err"
         THEN pc' = "exited" /\ exit_code' = {1} /\ UNCHANGED fileIdx
         ELSE fileIdx' = fileIdx + 1 /\ UNCHANGED <<pc, exit_code>>
  /\ UNCHANGED <<args, files, argIdx, output, countVars>>

\* lines 208-210: the report, then Ok(())
PrintReport ==
  /\ pc = "process"
  /\ fileIdx > Len(files)
  /\ PrintStatistics
  /\ pc' = "exited"
  /\ exit_code' = {0}
  /\ UNCHANGED <<args, files, argIdx, fileIdx, countVars>>

NextMain == CheckArgs \/ ExpandArg \/ ProcessNext \/ PrintReport

SpecMain == InitMain /\ [][NextMain]_vars

\* ======================================================== properties: Spec
Balanced(s) == s.lines = s.code + s.comments + s.blanks

\* the call that the step just taken made, if it was a process_file call
IsCallStep == calls' = calls + 1

FileCountOf(table, lang) ==
  IF lang \in DOMAIN table THEN table[lang].file_count ELSE 0

\* C1: the FileStats the Markdown counter returns and every LanguageStats
\* subtotal in the table satisfy lines = code + comments + blanks.
C1_LinesBalance ==
  /\ \A c \in lastCall : \A s \in c.stats : Balanced(s)
  /\ \A lang \in DOMAIN language_stats : Balanced(language_stats[lang].stats)

\* a file with a blank and a code line was counted after another file
C1_Witness ==
  /\ \E c \in lastCall : \E s \in c.stats : s.blanks = 1 /\ s.code = 1 /\ s.lines = 2
  /\ Markdown \in DOMAIN language_stats
  /\ language_stats[Markdown].file_count = 2
  /\ language_stats[Markdown].stats.lines = 4

\* C2: process_file on a path with no extension or an unregistered one returns
\* Ok and leaves language_stats as it was, wherever in a sequence it comes.
C2_UnclassifiedNoEffect ==
  [][IsCallStep =>
       \A c \in lastCall' :
         ~IsRegistered(c.name) =>
           /\ c.result = "Ok"
           /\ c.read = {}
           /\ language_stats' = language_stats]_vars

\* the dotfile ".md" was skipped after a Markdown file had been counted
C2_Witness ==
  /\ \E c \in lastCall : c.name = <<"", "md">> /\ c.data.ok
  /\ calls = 2
  /\ FileCountOf(language_stats, Markdown) = 1
  /\ DOMAIN language_stats = {Markdown}

\* C3: file_count of a language is the number of files of that language
\* successfully processed: one more per successful call (the same file twice
\* counts twice), unchanged by any other call.
C3_FileCountIsFilesCounted ==
  /\ FileCountOf(language_stats, Markdown) = BagCardinality(counted)
  /\ \A lang \in DOMAIN language_stats : lang = Markdown

\* the same content was counted twice, and one call counted nothing
C3_Witness ==
  /\ \E x \in BagToSet(counted) : CopiesIn(x, counted) = 2
  /\ calls = 3
  /\ FileCountOf(language_stats, Markdown) = 2

RECURSIVE SumOver(_, _, _)
SumOver(B, S, field) ==
  IF S = {} THEN 0
  ELSE LET x == CHOOSE y \in S : TRUE
       IN  CopiesIn(x, B) * CountContent(x)[field] + SumOver(B, S \ {x}, field)

\* what a multiset of files amounts to, whatever the order they came in
BagTotal(B) ==
  [stats |-> [lines    |-> SumOver(B, BagToSet(B), "lines"),
              code     |-> SumOver(B, BagToSet(B), "code"),
              comments |-> SumOver(B, BagToSet(B), "comments"),
              blanks   |-> SumOver(B, BagToSet(B), "blanks")],
   file_count |-> BagCardinality(B)]

\* C4: the LanguageStats of a language depends on the multiset of files
\* processed alone, not on the order of the process_file calls.
C4_OrderIndependent ==
  IF counted = EmptyBag
  THEN Markdown \notin DOMAIN language_stats
  ELSE /\ Markdown \in DOMAIN language_stats
       /\ language_stats[Markdown] = BagTotal(counted)

\* three files, of three contents with different counts, were processed
C4_Witness ==
  /\ BagCardinality(counted) = 3
  /\ {<<XC, LF>>, <<LF, LF>>, <<LF, XC>>} \subseteq BagToSet(counted)
  /\ \E c \in lastCall : c.data = ReadOk(<<XC, LF>>)

\* C5: when the file of a registered extension cannot be read, process_file
\* returns the error and language_stats is what it was before the call; no
\* entry is created for the language.
C5_FailureNoMutation ==
  [][IsCallStep =>
       \A c \in lastCall' :
         (IsRegistered(c.name) /\ ~c.data.ok) =>
           /\ c.result = "Err"
           /\ c.stats = {}
           /\ language_stats' = language_stats]_vars

\* the first file of a language failed: the table is still empty
C5_Witness ==
  /\ \E c \in lastCall : IsRegistered(c.name) /\ ~c.data.ok /\ c.result = "Err"
  /\ calls = 1
  /\ language_stats = EmptyMap

RECURSIVE SumRows(_)
SumRows(rows) == IF rows = <<>> THEN 0 ELSE Head(rows).files + SumRows(Tail(rows))

\* C8: total_files is the sum of the languages' file_count and the number of
\* process_file calls that resolved a registered extension and were counted.
C8_TotalFiles ==
  /\ total_files(language_stats) = BagCardinality(counted)
  /\ \A o \in output : o.total = SumRows(o.rows)

\* a report with two files was printed after three calls
C8_Witness ==
  /\ \E o \in output : o.total = 2 /\ Len(o.rows) = 1
  /\ calls = 3
  /\ BagCardinality(counted) = 2

\* C9: every key of processors is a key of extension_map, neither map changes
\* after construction, and no counted file is dropped for want of a language.
C9_RegistriesConsistent ==
  /\ DOMAIN processors \subseteq DOMAIN extension_map
  /\ DOMAIN processors = RegisteredExtensions
  /\ \A e \in DOMAIN processors : extension_map[e] = Markdown
  /\ \A c \in lastCall : ~c.dropped /\ (c.stats # {} => language_stats # EmptyMap)

\* a registered file was counted and a report printed
C9_Witness ==
  /\ \E c \in lastCall : c.stats # {} /\ c.name = <<"a", "tar", "md">>
  /\ output # {}
  /\ calls = 3

\* =================================================== properties: SpecCount
\* A line starts at the first character and after each line feed.
StartsLine(c, i) == i = 1 \/ c[i - 1] = LF

\* lines: one per line feed, and one more for an unterminated tail
RefLines(c) ==
  Cardinality({i \in 1..Len(c) : c[i] = LF})
    + (IF Len(c) > 0 /\ c[Len(c)] # LF THEN 1 ELSE 0)

\* empty lines: a line feed, or a "\r\n", right at the start of a line
RefBlanks(c) ==
  Cardinality({i \in 1..Len(c) :
                 /\ c[i] = LF
                 /\ \/ StartsLine(c, i)
                    \/ (c[i - 1] = CR /\ StartsLine(c, i - 1))})

\* C6: the Markdown counter returns blanks = the number of empty lines, code =
\* the number of other lines (whitespace-only lines included), comments = 0 and
\* lines = the number of lines, lines ending at "\n" or "\r\n", an unterminated
\* last line counted, empty content giving all zeros.
C6_CounterResult ==
  \A s \in file_stats :
    /\ s.lines = RefLines(content)
    /\ s.blanks = RefBlanks(content)
    /\ s.code = RefLines(content) - RefBlanks(content)
    /\ s.comments = 0
    /\ (content = <<>> => s = FileStatsDefault)
    /\ (content = <<XC, LF, LF, XC, LF>> =>
          s = [lines |-> 3, code |-> 2, blanks |-> 1, comments |-> 0])
    /\ (content = <<SP, LF, CR, LF, XC>> =>
          s = [lines |-> 3, code |-> 2, blanks |-> 1, comments |-> 0])

\* "x\r\n\r\n" was counted: a code line and an empty line, both ended by "\r\n"
C6_Witness ==
  /\ content = <<XC, CR, LF, CR, LF>>
  /\ file_stats = {[lines |-> 2, code |-> 1, blanks |-> 1, comments |-> 0]}

\* ==================================================== properties: SpecMain
RECURSIVE FilesUnder(_)
FilesUnder(node) ==
  IF node.kind = "file" THEN {node}
  ELSE UNION {FilesUnder(node.entries[i]) : i \in 1..Len(node.entries)}

RECURSIVE ContainsLocked(_)
ContainsLocked(node) ==
  /\ node.kind = "dir"
  /\ \/ ~node.listable
     \/ \E i \in 1..Len(node.entries) : ContainsLocked(node.entries[i])

\* the number of files the arguments before the k-th hold
RECURSIVE Offset(_)
Offset(k) == IF k <= 1 THEN 0 ELSE Offset(k - 1) + Cardinality(FilesUnder(args[k - 1]))

\* processing this file fails: a registered extension and no readable content
Fails(f) == IsRegistered(f.name) /\ ~f.data.ok

\* every argument was expanded
Expanded == pc = "process" \/ (pc = "exited" /\ args # <<>> /\ argIdx > Len(args))

\* C7: the first file whose processing fails ends the run with exit code 1, the
\* files after it unprocessed and no report printed; a failed directory walk
\* does the same; the report is printed, with exit code 0, only when every file
\* of the list was processed without error.
C7_FirstErrorAborts ==
  /\ output # {} =>
       /\ pc = "exited" /\ exit_code = {0}
       /\ calls = Len(files)
       /\ \A i \in 1..Len(files) : ~Fails(files[i])
  /\ exit_code = {0} => output # {}
  /\ Expanded =>
       \A i \in 1..Len(files) :
         Fails(files[i]) =>
           /\ calls <= i
           /\ output = {}
           /\ calls = i =>
                /\ pc = "exited" /\ exit_code = {1}
                /\ \A c \in lastCall : c.result = "Err" /\ c.name = files[i].name
  /\ (pc = "exited" /\ argIdx <= Len(args)) => (exit_code = {1} /\ output = {})
  /\ (Expanded /\ exit_code = {1}) => \E i \in 1..Len(files) : Fails(files[i])

\* the second of four files failed: one file counted, two never touched
C7_Witness ==
  /\ pc = "exited" /\ exit_code = {1} /\ output = {}
  /\ Len(files) = 4 /\ calls = 2
  /\ Fails(files[2])
  /\ FileCountOf(language_stats, Markdown) = 1

\* C10: every argument is expanded before any file is processed, so a failed
\* walk of any argument ends the run with no file processed and an empty
\* table; the file list holds the arguments' files in the arguments' order,
\* and the files are processed in the order of the list.
C10_ExpandThenProcess ==
  /\ pc \in {"start", "expand"} =>
       calls = 0 /\ lastCall = {} /\ language_stats = EmptyMap
  /\ (\E k \in 1..Len(args) : ContainsLocked(args[k])) =>
       /\ calls = 0 /\ language_stats = EmptyMap /\ output = {}
       /\ pc # "process"
       /\ pc = "exited" => exit_code = {1}
  /\ Len(files) = Offset(argIdx)
  /\ \A k \in 1..(argIdx - 1) :
       {files[i] : i \in (Offset(k) + 1)..Offset(k + 1)} = FilesUnder(args[k])
  /\ calls > 0 => \A c \in lastCall : c.name = files[calls].name
  /\ calls \in {fileIdx - 1, fileIdx}

\* the walk of the last argument failed after a first argument had given a file
C10_Witness ==
  /\ Len(args) = 2 /\ args[1] = FileA /\ args[2] = DirPartly
  /\ pc = "exited" /\ exit_code = {1}
  /\ files = <<FileA>>
  /\ calls = 0 /\ language_stats = EmptyMap

====
